---------------------------- MODULE Spec2Model ----------------------------
(***************************************************************************)
(* htpy: the Python binding of the libhtp HTTP parser (src/htpy.c).        *)
(*                                                                         *)
(* The model follows the objects of htpy.c: the htpy.config object and its *)
(* htp_cfg_t, the htpy.connp object (its libhtp connection parser, its     *)
(* obj_store and its callback slots), the global request_file_data slot,   *)
(* the reference counts the module takes on host objects, and the pending  *)
(* exception of the interpreter that the trampolines test with             *)
(* PyErr_Occurred().  A feed (req_data / res_data) is followed step by     *)
(* step: the engine consumes bytes and runs hooks, each hook entry calls a *)
(* trampoline of htpy.c, the trampoline calls the host handler, and the    *)
(* value it hands back decides how the engine goes on.                     *)
(*                                                                         *)
(* libhtp itself (the grammar engine) is an external library.  What the    *)
(* model needs of it is written in the definitions whose names start with  *)
(* htp_; everything else is translated from htpy.c.                        *)
(***************************************************************************)
EXTENDS Integers, Sequences, FiniteSets, TLC

(***************************************************************************)
(* Bounds of the model.                                                    *)
(***************************************************************************)
\* calls the host makes in one run (register_*, set_obj, del_obj, req_data,
\* res_data)
MaxCalls == 3
\* longest buffer given to one feed
MaxLen == 1
\* transactions of one connection
MaxTx == 2
\* a port number of a URI
Port == 80
\* header lines of one transaction, both messages together
MaxHeaders == 3

(***************************************************************************)
(* Values of the hook return codes that htpy exports to the host.          *)
(***************************************************************************)
HTP_ERROR == -1
HTP_DECLINED == 0
HTP_OK == 1
HTP_STOP == 4
HTP_PROTOCOL_1_1 == 101
HTP_LOG_DEBUG2 == 6
\* an integer that is none of the exported hook return codes
OutOfRange == 7

NULL == "NULL"
Parsers == {"A", "B"}
Handlers == {"h1", "h2"}
UserObjs == {"u1", "u2"}
PyObjs == Handlers \cup UserObjs

\* The configuration structures: the one of the htpy.config object, and the
\* default one htpy_connp_init creates for a parser built without a config.
HostCfg == "C"
DefaultCfg(p) == "default" \o p
CfgIds == {HostCfg} \cup {DefaultCfg(p) : p \in Parsers}

(***************************************************************************)
(* Hook points.  One hook of each trampoline is kept: CALLBACK (the         *)
(* transaction hooks, here of the request direction), CALLBACK_TX (the     *)
(* data hooks, here of the response direction), htpy_log_callback and      *)
(* htpy_request_file_data_callback; and transaction_complete, the CALLBACK *)
(* hook that the engine runs when it finalizes a transaction.              *)
(***************************************************************************)
TxHooks == {"request_line", "transaction_complete"}
DataHooks == {"response_body_data"}
LogHook == "log"
FileHook == "request_file_data"
\* hooks whose handler is a field of the htpy_connp object
ConnpHooks == TxHooks \cup DataHooks \cup {LogHook}
AllHooks == ConnpHooks \cup {FileHook}

Dirs == {"req", "res"}
HooksOfDir(d) ==
    IF d = "req"
    THEN {"request_line", FileHook, LogHook}
    ELSE {"response_body_data", LogHook}
\* hooks the engine runs while it parses a message
ParsingHooks == HooksOfDir("req") \cup HooksOfDir("res")

VARIABLES
    config_obj,   \* the htpy.config object: "none", "live" or "freed"
    cfg_state,    \* each htp_cfg_t: "unalloc", "live" or "destroyed"
    cfg_hooks,    \* each htp_cfg_t: callback entries registered per hook
    connp_state,  \* each htpy.connp object: "none", "live" or "freed"
    connp_cfg,    \* connp->cfg of each parser
    obj_store,    \* obj_store of each parser
    callback,     \* the CB##_callback fields of each parser
    request_file_data_callback,  \* the global slot
    refs,         \* references taken (Py_XINCREF less Py_XDECREF) per owner
    status,       \* in_status / out_status of each connection parser
    consumed,     \* in/out_current_read_offset of each connection parser
    pyerr,        \* an exception is pending in the interpreter
    crashed,      \* the process died on a wild pointer
    feed,         \* the feed call in progress, or the last one made
    lastCall,     \* the last handler invocation made by a trampoline
    lastReg,      \* the last register_* call
    errAt,        \* per direction, a hook whose handler returned ERROR (a
                  \* transaction or data hook if there was one)
    count,        \* calls the host made so far (bounds the run)
    conn,         \* connection of parser A as libhtp keeps it: transactions,
                  \* in_tx, out_tx, and the inbound stream read so far
    got,          \* the last accessor or setter call and what it returned
    outer,        \* the feed suspended in a handler that called a feed
    cfg_opts,     \* log_level and tx_auto_destroy of the host's config
    wire          \* the bytes of the client's request, and how many of them
                  \* the host has fed

vars == <<config_obj, cfg_state, cfg_hooks, connp_state, connp_cfg, obj_store,
          callback, request_file_data_callback, refs, status, consumed,
          pyerr, crashed, feed, lastCall, lastReg, errAt, count,
          conn, got, outer, cfg_opts,
                wire>>

\* The variables the object and hook machinery does not touch.
more == <<conn, got, outer, cfg_opts,
                wire>>


Owners == Parsers \cup {"module"}

StreamStates == {"HTP_STREAM_NEW", "HTP_STREAM_CLOSED", "HTP_STREAM_ERROR",
                 "HTP_STREAM_TUNNEL", "HTP_STREAM_DATA_OTHER",
                 "HTP_STREAM_STOP", "HTP_STREAM_DATA"}

\* A feed: where the call stands (phase), its arguments, the engine's place
\* in the chunk (pos) and in the hook list it is running (hook, idx, nent,
\* resume), the stream state it returned (x) and the exception the host got
\* (exc).  stopHook, stopPos and afterStop remember the first handler of
\* this feed that returned STOP, where the engine stood then, and whether a
\* handler was called after it.
NoFeed ==
    [phase |-> "none", p |-> NULL, dir |-> NULL, len |-> 0, pos |-> 0,
     hook |-> NULL, idx |-> 0, nent |-> 0, resume |-> NULL,
     x |-> NULL, exc |-> NULL,
     stopHook |-> NULL, stopPos |-> 0, afterStop |-> FALSE]

\* A handler invocation: the parser the event is on, the hook, the handler
\* called, the argument tuple, obj_store at that moment, what the handler
\* did and what the trampoline returned to the engine.
NoCall ==
    [p |-> NULL, hook |-> NULL, handler |-> NULL, args |-> <<>>, obj |-> NULL,
     outcome |-> [kind |-> "none", val |-> 0], ret |-> 0]

\* A registration that replaced another handler.
NoReg == [p |-> NULL, hook |-> NULL, old |-> NULL, new |-> NULL]

\* A transaction (htp_tx_t) as far as the accessors read it: how far its
\* request and its response are parsed, its header tables (name and value
\* of each entry; a value is the list of the header lines folded into it)
\* and its parsed URI.  A field the parser has filled holds a value that
\* names the transaction (see Field); id 0 stands for no transaction.
\* A pointer to a structure or to a byte string: NullPtr, or PtrTo the
\* thing.
NullPtr == <<>>
PtrTo(x) == <<x>>
Deref(ptr) == ptr[1]

NoTx ==
    [id |-> 0, request_progress |-> "none", response_progress |-> "none",
     headers |-> [request |-> <<>>, response |-> <<>>], parsed_uri |-> NullPtr]
NewTx(i) == [NoTx EXCEPT !.id = i, !.request_progress = "start"]

\* The connection before any byte: no transaction in the list, none being
\* parsed in either direction, nothing buffered.
NoConn ==
    [transactions |-> <<>>, in_tx |-> 0, out_tx |-> 0, final_tx |-> 0,
     in_buf |-> <<>>, in_stream_offset |-> 0, lines |-> <<>>, body |-> 0]

NoWire == [request |-> <<>>, sent |-> 0]

\* An accessor or setter call: the function, its argument, and the result:
\* a value, None, or the exception raised.
NoGet == [fn |-> NULL, arg |-> NULL, kind |-> "nocall", val |-> NULL]
Value(fn, arg, v) == [fn |-> fn, arg |-> arg, kind |-> "value", val |-> v]
None(fn, arg) == [fn |-> fn, arg |-> arg, kind |-> "None", val |-> NULL]
Error(fn, arg) == [fn |-> fn, arg |-> arg, kind |-> "htpy.error", val |-> NULL]

\* The options of the config object as htpy_config_init leaves them:
\* libhtp's default log level (HTP_LOG_NOTICE) and tx_auto_destroy on.
DefaultOpts == [log_level |-> 3, tx_auto_destroy |-> 1]

\* Nothing registered, attached or fed yet.
Blank ==
    /\ conn = NoConn
    /\ got = NoGet
    /\ outer = NoFeed
    /\ cfg_opts = DefaultOpts
    /\ wire = NoWire
    /\ cfg_hooks = [c \in CfgIds |-> [h \in AllHooks |-> 0]]
    /\ obj_store = [p \in Parsers |-> NULL]
    /\ callback = [p \in Parsers |-> [h \in ConnpHooks |-> NULL]]
    /\ request_file_data_callback = NULL
    /\ refs = [w \in Owners |-> [o \in PyObjs |-> 0]]
    /\ status = [p \in Parsers |-> [d \in Dirs |-> "HTP_STREAM_NEW"]]
    /\ consumed = [p \in Parsers |-> [d \in Dirs |-> 0]]
    /\ pyerr = FALSE
    /\ crashed = FALSE
    /\ feed = NoFeed
    /\ lastCall = NoCall
    /\ lastReg = NoReg
    /\ errAt = [p \in Parsers |-> [d \in Dirs |-> NULL]]
    /\ count = 0

(***************************************************************************)
(* Reference counting: Py_XINCREF / Py_XDECREF do nothing on NULL.         *)
(***************************************************************************)
Py_XINCREF(r, w, o) == IF o = NULL THEN r ELSE [r EXCEPT ![w][o] = @ + 1]
Py_XDECREF(r, w, o) == IF o = NULL THEN r ELSE [r EXCEPT ![w][o] = @ - 1]

\* The host may make a call: no feed is in progress (handlers are taken not
\* to call back into the module), and the run has calls left.  With a new
\* call, feed and lastCall (the record of the call before) start afresh.
HostRuns == ~crashed /\ feed.phase \in {"none", "done"}
HostCalls == HostRuns /\ count < MaxCalls
Called == count + 1

\* The parser whose feed is in progress (its arguments keep it alive).
Feeding(p) == feed.phase \in {"run", "hooks", "handler"} /\ feed.p = p

\* connp->cfg points to a structure that htp_config_destroy has freed: every
\* use of it is a use after free, which either kills the process or finds
\* the old contents.
CfgDangling(p) == cfg_state[connp_cfg[p]] = "destroyed"
UseCfg(p) == crashed' \in (IF CfgDangling(p) THEN {TRUE, FALSE} ELSE {FALSE})

(***************************************************************************)
(* htpy.config                                                             *)
(***************************************************************************)
htpy_config_init ==
    /\ HostRuns
    /\ config_obj = "none"
    /\ config_obj' = "live"
    /\ cfg_state' = [cfg_state EXCEPT ![HostCfg] = "live"]
    /\ UNCHANGED more
    /\ UNCHANGED <<cfg_hooks, connp_state, connp_cfg, obj_store, callback,
                   request_file_data_callback, refs, status, consumed, pyerr,
                   crashed, feed, lastCall, lastReg, errAt, count>>

\* The host drops its reference.  htpy_connp_init takes none on the config
\* object, so the host's reference is the last one whatever parsers use it.
htpy_config_dealloc ==
    /\ HostRuns
    /\ config_obj = "live"
    /\ config_obj' = "freed"
    /\ cfg_state' = [cfg_state EXCEPT ![HostCfg] = "destroyed"]
    /\ UNCHANGED more
    /\ UNCHANGED <<cfg_hooks, connp_state, connp_cfg, obj_store, callback,
                   request_file_data_callback, refs, status, consumed, pyerr,
                   crashed, feed, lastCall, lastReg, errAt, count>>

(***************************************************************************)
(* htpy.connp                                                              *)
(***************************************************************************)
\* withCfg: the host passes its config object; otherwise a default
\* configuration is created for this parser.
htpy_connp_init(p, withCfg) ==
    /\ HostRuns
    /\ connp_state[p] = "none"
    /\ withCfg => config_obj = "live"
    /\ connp_state' = [connp_state EXCEPT ![p] = "live"]
    /\ IF withCfg
       THEN /\ connp_cfg' = [connp_cfg EXCEPT ![p] = HostCfg]
            /\ UNCHANGED cfg_state
       ELSE /\ connp_cfg' = [connp_cfg EXCEPT ![p] = DefaultCfg(p)]
            /\ cfg_state' = [cfg_state EXCEPT ![DefaultCfg(p)] = "live"]
    /\ UNCHANGED more
    /\ UNCHANGED <<config_obj, cfg_hooks, obj_store, callback,
                   request_file_data_callback, refs, status, consumed, pyerr,
                   crashed, feed, lastCall, lastReg, errAt, count>>

RECURSIVE DecRefAll(_, _, _)
DecRefAll(r, w, objs) ==
    IF objs = <<>> THEN r
    ELSE DecRefAll(Py_XDECREF(r, w, Head(objs)), w, Tail(objs))

\* The fields htpy_connp_dealloc releases, in its order.
DeallocOrder ==
    <<"request_line", "response_body_data", "transaction_complete", LogHook>>

\* The object is freed with its fields; htp_connp_destroy_all frees the
\* connection parser and its transactions, and leaves connp->cfg alone.
\* A faulty dealloc: the parser takes the global file data handler with it.
htpy_connp_dealloc_drops_global(p) ==
    /\ HostRuns
    /\ connp_state[p] = "live"
    /\ ~Feeding(p)
    /\ refs' = Py_XDECREF(
                  DecRefAll(Py_XDECREF(refs, p, obj_store[p]), p,
                            [i \in 1..Len(DeallocOrder) |->
                               callback[p][DeallocOrder[i]]]),
                  "module", request_file_data_callback)
    /\ request_file_data_callback' = NULL
    /\ connp_state' = [connp_state EXCEPT ![p] = "freed"]
    /\ obj_store' = [obj_store EXCEPT ![p] = NULL]
    /\ callback' = [callback EXCEPT ![p] = [h \in ConnpHooks |-> NULL]]
    /\ UNCHANGED more
    /\ UNCHANGED <<config_obj, cfg_state, cfg_hooks, connp_cfg,
                   status, consumed, pyerr,
                   crashed, feed, lastCall, lastReg, errAt, count>>

htpy_connp_dealloc(p) ==
    /\ HostRuns
    /\ connp_state[p] = "live"
    /\ ~Feeding(p)
    /\ refs' = DecRefAll(Py_XDECREF(refs, p, obj_store[p]), p,
                         [i \in 1..Len(DeallocOrder) |-> callback[p][DeallocOrder[i]]])
    /\ connp_state' = [connp_state EXCEPT ![p] = "freed"]
    /\ obj_store' = [obj_store EXCEPT ![p] = NULL]
    /\ callback' = [callback EXCEPT ![p] = [h \in ConnpHooks |-> NULL]]
    /\ UNCHANGED more
    /\ UNCHANGED <<config_obj, cfg_state, cfg_hooks, connp_cfg,
                   request_file_data_callback, status, consumed, pyerr,
                   crashed, feed, lastCall, lastReg, errAt, count>>

\* htp_config_register_##CB appends one callback entry to the hook's list in
\* the configuration the parser points to.
htp_config_register(hooks, c, h) == [hooks EXCEPT ![c][h] = @ + 1]

\* A faulty REGISTER_CALLBACK: the reference to the handler it replaces is
\* not released.
REGISTER_CALLBACK_leaks(p, CB, temp) ==
    /\ HostCalls
    /\ connp_state[p] = "live"
    /\ refs' = Py_XINCREF(refs, p, temp)
    /\ callback' = [callback EXCEPT ![p][CB] = temp]
    /\ UseCfg(p)
    /\ cfg_hooks' = htp_config_register(cfg_hooks, connp_cfg[p], CB)
    /\ lastReg' = IF callback[p][CB] \notin {NULL, temp}
                   THEN [p |-> p, hook |-> CB, old |-> callback[p][CB],
                         new |-> temp]
                   ELSE lastReg
    /\ count' = Called
    /\ feed' = NoFeed
    /\ lastCall' = NoCall
    /\ UNCHANGED more
    /\ UNCHANGED <<config_obj, cfg_state, connp_state, connp_cfg, obj_store,
                   request_file_data_callback, status, consumed, pyerr, errAt>>

REGISTER_CALLBACK(p, CB, temp) ==
    /\ HostCalls
    /\ connp_state[p] = "live"
    /\ refs' = Py_XDECREF(Py_XINCREF(refs, p, temp), p, callback[p][CB])
    /\ callback' = [callback EXCEPT ![p][CB] = temp]
    /\ UseCfg(p)
    /\ cfg_hooks' = htp_config_register(cfg_hooks, connp_cfg[p], CB)
    /\ lastReg' = IF callback[p][CB] \notin {NULL, temp}
                   THEN [p |-> p, hook |-> CB, old |-> callback[p][CB],
                         new |-> temp]
                   ELSE lastReg
    /\ count' = Called
    /\ feed' = NoFeed
    /\ lastCall' = NoCall
    /\ UNCHANGED more
    /\ UNCHANGED <<config_obj, cfg_state, connp_state, connp_cfg, obj_store,
                   request_file_data_callback, status, consumed, pyerr, errAt>>

htpy_connp_register_request_file_data(p, temp) ==
    /\ HostCalls
    /\ connp_state[p] = "live"
    /\ refs' = Py_XDECREF(Py_XINCREF(refs, "module", temp), "module",
                          request_file_data_callback)
    /\ request_file_data_callback' = temp
    /\ UseCfg(p)
    /\ cfg_hooks' = htp_config_register(cfg_hooks, connp_cfg[p], FileHook)
    /\ lastReg' = IF request_file_data_callback \notin {NULL, temp}
                   THEN [p |-> p, hook |-> FileHook,
                         old |-> request_file_data_callback, new |-> temp]
                   ELSE lastReg
    /\ count' = Called
    /\ feed' = NoFeed
    /\ lastCall' = NoCall
    /\ UNCHANGED more
    /\ UNCHANGED <<config_obj, cfg_state, connp_state, connp_cfg, obj_store,
                   callback, status, consumed, pyerr, errAt>>

\* A faulty set_obj: the object attached before is not released.
htpy_connp_set_obj_leaks(p, obj) ==
    /\ HostCalls
    /\ connp_state[p] = "live"
    /\ refs' = Py_XINCREF(refs, p, obj)
    /\ obj_store' = [obj_store EXCEPT ![p] = obj]
    /\ count' = Called
    /\ feed' = NoFeed
    /\ lastCall' = NoCall
    /\ UNCHANGED more
    /\ UNCHANGED <<config_obj, cfg_state, cfg_hooks, connp_state, connp_cfg,
                   callback, request_file_data_callback, status, consumed,
                   pyerr, crashed, lastReg, errAt>>

htpy_connp_set_obj(p, obj) ==
    /\ HostCalls
    /\ connp_state[p] = "live"
    /\ refs' = Py_XINCREF(Py_XDECREF(refs, p, obj_store[p]), p, obj)
    /\ obj_store' = [obj_store EXCEPT ![p] = obj]
    /\ count' = Called
    /\ feed' = NoFeed
    /\ lastCall' = NoCall
    /\ UNCHANGED more
    /\ UNCHANGED <<config_obj, cfg_state, cfg_hooks, connp_state, connp_cfg,
                   callback, request_file_data_callback, status, consumed,
                   pyerr, crashed, lastReg, errAt>>

htpy_connp_del_obj(p) ==
    /\ HostCalls
    /\ connp_state[p] = "live"
    /\ refs' = Py_XDECREF(refs, p, obj_store[p])
    /\ obj_store' = [obj_store EXCEPT ![p] = NULL]
    /\ count' = Called
    /\ feed' = NoFeed
    /\ lastCall' = NoCall
    /\ UNCHANGED more
    /\ UNCHANGED <<config_obj, cfg_state, cfg_hooks, connp_state, connp_cfg,
                   callback, request_file_data_callback, status, consumed,
                   pyerr, crashed, lastReg, errAt>>


(***************************************************************************)
(* The trampolines.  A handler either returns an integer, returns          *)
(* something that is not an integer, or raises.                            *)
(***************************************************************************)
ReturnCodes == {HTP_ERROR, HTP_DECLINED, HTP_OK, HTP_STOP}
Returns(v) == [kind |-> "int", val |-> v]
NonInt == [kind |-> "nonint", val |-> 0]
Raises == [kind |-> "raise", val |-> 0]
Outcomes == {Returns(v) : v \in ReturnCodes \cup {OutOfRange}} \cup {NonInt, Raises}

\* PyInt_AsLong: the value of an integer; -1, with an exception set, for
\* anything else.
PyInt_AsLong(res) == IF res.kind = "int" THEN res.val ELSE -1

\* From PyObject_CallObject to the return, the same in the four trampolines:
\* an exception raised by the handler, or one that was pending already, is
\* printed and cleared and HTP_ERROR returned; otherwise the result is
\* converted, and a failed conversion leaves its exception pending.
\* A faulty trampoline: the handler's exception is printed and the hook
\* reported as having succeeded.
CallObject_swallows(outcome, pending) ==
    IF outcome.kind = "raise" \/ pending
    THEN [ret |-> HTP_OK, pyerr |-> FALSE]
    ELSE [ret |-> PyInt_AsLong(outcome), pyerr |-> outcome.kind # "int"]

CallObject(outcome, pending) ==
    IF outcome.kind = "raise" \/ pending
    THEN [ret |-> HTP_ERROR, pyerr |-> FALSE]
    ELSE [ret |-> PyInt_AsLong(outcome), pyerr |-> outcome.kind # "int"]

\* Py_BuildValue of the argument tuple fails: the handler is not called.
BuildFails == [kind |-> "nobuild", val |-> 0]

\* The objects a trampoline has created for an invocation when it returns:
\* the argument tuple and, unless the handler raised, the result of the
\* handler; the file data trampoline makes a dictionary, a key and a value
\* for the data before it builds the argument tuple.
Created(hook, path) ==
    (IF hook = FileHook THEN {"dict", "data_key", "data_val"} ELSE {})
    \cup (IF path = BuildFails THEN {} ELSE {"arglist"})
    \cup (IF path \notin {BuildFails, Raises} THEN {"res"} ELSE {})

\* The objects it has released: Py_DECREF(arglist) after the call, and
\* Py_DECREF(res) when no exception was found pending.
Released(hook, path, pending) ==
    (IF path = BuildFails THEN {} ELSE {"arglist"})
    \cup (IF path \notin {BuildFails, Raises} /\ ~pending THEN {"res"} ELSE {})

Unreleased(hook, path, pending) ==
    Created(hook, path) \ Released(hook, path, pending)

\* The argument tuples Py_BuildValue makes.
\* A faulty CALLBACK: the parser object is left out of the arguments.
CALLBACK_no_connp(p) ==
    IF obj_store[p] # NULL THEN <<obj_store[p]>> ELSE <<>>

CALLBACK(p) ==
    IF obj_store[p] # NULL THEN <<p, obj_store[p]>> ELSE <<p>>

\* A faulty CALLBACK_TX: obj_store is never passed.
CALLBACK_TX_no_obj(p) == <<"data", "len", "len">>

CALLBACK_TX(p) ==
    IF obj_store[p] # NULL
    THEN <<"data", "len", "len", obj_store[p]>>
    ELSE <<"data", "len", "len">>

htpy_request_file_data_callback(p) == <<"dict">>

htpy_log_callback(p) ==
    IF obj_store[p] # NULL
    THEN <<p, "msg", "level", obj_store[p]>>
    ELSE <<p, "msg", "level">>

\* The trampoline registered for a hook, and the slot it calls.
Arglist(p, hook) ==
    IF hook \in TxHooks THEN CALLBACK(p)
    ELSE IF hook \in DataHooks THEN CALLBACK_TX(p)
    ELSE IF hook = LogHook THEN htpy_log_callback(p)
    ELSE htpy_request_file_data_callback(p)

Slot(p, hook) ==
    IF hook = FileHook THEN request_file_data_callback ELSE callback[p][hook]

(***************************************************************************)
(* Feeding: req_data / res_data.                                           *)
(***************************************************************************)
\* What the host gets for the stream state x the engine returned.
\* A faulty DATA: a stream error is returned as a number like any other
\* stream state.
DATA_return_no_error(x) ==
    IF x = "HTP_STREAM_STOP" THEN "htpy.stop" ELSE NULL

DATA_return(x) ==
    IF x = "HTP_STREAM_ERROR" THEN "htpy.error"
    ELSE IF x = "HTP_STREAM_STOP" THEN "htpy.stop"
    ELSE NULL

\* req_data_consumed / res_data_consumed of a parser.
\* (a faulty variant reads the counter of the other direction)
DATA_CONSUMED_other(p, TYPE) ==
    consumed[p][IF TYPE = "req" THEN "res" ELSE "req"]

DATA_CONSUMED(p, TYPE) == consumed[p][TYPE]

\* The feed ends: the engine returned x to the DATA function.  Raising
\* htpy.error or htpy.stop replaces whatever exception was pending.
Return(f, x) ==
    [f EXCEPT !.phase = "done", !.x = x, !.exc = DATA_return(x),
              !.hook = NULL, !.idx = 0, !.nent = 0, !.resume = NULL]
PyErrAfter(x, pending) == IF DATA_return(x) # NULL THEN FALSE ELSE pending

\* Hooks whose result libhtp hands up to the stream state.  The result of a
\* log callback is dropped by htp_log; what the multipart parser does with
\* the result of a file data callback is left open (see Trampoline_return).
Gating == TxHooks \cup DataHooks

\* htp_connp_req_data / htp_connp_res_data, up to the parsing loop: a stream
\* that stopped or failed stays so, an empty chunk is refused, and only then
\* is the chunk stored and its read offset reset.
htp_connp_data_refuses(st, len) ==
    IF st = "HTP_STREAM_STOP" THEN "HTP_STREAM_STOP"
    ELSE IF st = "HTP_STREAM_ERROR" THEN "HTP_STREAM_ERROR"
    ELSE IF len = 0 THEN "HTP_STREAM_CLOSED"
    ELSE NULL

\* The body of DATA: the call of htp_connp_req_data / htp_connp_res_data.
\* Nothing in it looks whether a feed is in progress on the parser.
DATA_call(p, TYPE, len) ==
    /\ connp_state[p] = "live"
    /\ UseCfg(p)
    /\ count' = Called
    /\ LET st == status[p][TYPE]
           x == htp_connp_data_refuses(st, len)
           f == [NoFeed EXCEPT !.p = p, !.dir = TYPE, !.len = len]
       IN IF x # NULL
          THEN \* refused; the engine logs the refusal first, and the log
               \* hook runs if the message passes the log level
               /\ \E logged \in BOOLEAN :
                    IF logged /\ cfg_hooks[connp_cfg[p]][LogHook] > 0
                    THEN /\ feed' = [f EXCEPT !.phase = "hooks", !.hook = LogHook,
                                       !.nent = cfg_hooks[connp_cfg[p]][LogHook],
                                       !.resume = "return", !.x = x,
                                       !.pos = consumed[p][TYPE]]
                         /\ pyerr' = pyerr
                    ELSE /\ feed' = Return([f EXCEPT !.pos = consumed[p][TYPE]], x)
                         /\ pyerr' = PyErrAfter(x, pyerr)
               /\ UNCHANGED <<status, consumed>>
          ELSE /\ consumed' = [consumed EXCEPT ![p][TYPE] = 0]
               /\ IF st = "HTP_STREAM_TUNNEL"
                  THEN /\ feed' = Return(f, "HTP_STREAM_TUNNEL")
                       /\ pyerr' = PyErrAfter("HTP_STREAM_TUNNEL", pyerr)
                  ELSE /\ feed' = [f EXCEPT !.phase = "run"]
                       /\ pyerr' = pyerr
               /\ UNCHANGED status
    /\ lastCall' = NoCall
    /\ UNCHANGED <<config_obj, cfg_state, cfg_hooks, connp_state, connp_cfg,
                   obj_store, callback, request_file_data_callback, refs,
                   lastReg, errAt>>

\* req_data / res_data called by the host.
DATA(p, TYPE, len) ==
    /\ HostCalls
    /\ DATA_call(p, TYPE, len)
    /\ UNCHANGED more

\* req_data / res_data called by a handler, while the feed that invoked the
\* handler waits for it to return.
DATA_in_handler(p, TYPE, len) ==
    /\ ~crashed
    /\ feed.phase = "handler"
    /\ outer = NoFeed
    /\ count < MaxCalls
    /\ DATA_call(p, TYPE, len)
    /\ outer' = feed
    /\ UNCHANGED <<conn, got, cfg_opts, wire>>

\* The feed made by the handler is over and the handler goes on.  The
\* engine has put the chunk and the read offset of the inner feed in the
\* place of those of the outer one (when the inner feed was not refused),
\* and the outer feed goes on with them: its chunk pointer is no longer
\* that of the data it was given.
DATA_in_handler_returns ==
    /\ ~crashed
    /\ feed.phase = "done"
    /\ outer # NoFeed
    /\ feed' = outer
    /\ outer' = NoFeed
    /\ IF feed.p = outer.p /\ feed.dir = outer.dir
          /\ feed.x \notin {"HTP_STREAM_STOP", "HTP_STREAM_ERROR",
                             "HTP_STREAM_CLOSED"}
       THEN crashed' \in BOOLEAN
       ELSE UNCHANGED crashed
    /\ UNCHANGED <<config_obj, cfg_state, cfg_hooks, connp_state, connp_cfg,
                   obj_store, callback, request_file_data_callback, refs,
                   status, consumed, pyerr, lastCall, lastReg, errAt, count,
                   conn, got, cfg_opts, wire>>

\* The engine reads one more byte of the chunk.
htp_consume ==
    /\ ~crashed
    /\ feed.phase = "run"
    /\ feed.pos < feed.len
    /\ feed' = [feed EXCEPT !.pos = @ + 1]
    /\ consumed' = [consumed EXCEPT ![feed.p][feed.dir] = feed.pos + 1]
    /\ UNCHANGED more
    /\ UNCHANGED <<config_obj, cfg_state, cfg_hooks, connp_state, connp_cfg,
                   obj_store, callback, request_file_data_callback, refs,
                   status, pyerr, crashed, lastCall, lastReg, errAt, count>>

\* The engine reaches a hook point: htp_hook_run_all runs the entries that
\* are in the hook's list at this moment.
htp_hook_run_all(hook) ==
    /\ ~crashed
    /\ feed.phase = "run"
    /\ hook \in HooksOfDir(feed.dir)
    /\ cfg_hooks[connp_cfg[feed.p]][hook] > 0
    /\ UseCfg(feed.p)
    /\ feed' = [feed EXCEPT !.phase = "hooks", !.hook = hook, !.idx = 0,
                            !.nent = cfg_hooks[connp_cfg[feed.p]][hook],
                            !.resume = "run"]
    /\ UNCHANGED more
    /\ UNCHANGED <<config_obj, cfg_state, cfg_hooks, connp_state, connp_cfg,
                   obj_store, callback, request_file_data_callback, refs,
                   status, consumed, pyerr, lastCall, lastReg, errAt, count>>

\* The next entry of the list is called: the trampoline builds its arguments
\* and calls the handler of the slot.  PyObject_CallObject on an empty slot
\* dereferences NULL.
Trampoline_call ==
    /\ ~crashed
    /\ feed.phase = "hooks"
    /\ feed.idx < feed.nent
    /\ LET p == feed.p
           h == Slot(p, feed.hook)
       IN IF h = NULL
          THEN /\ crashed' = TRUE
               /\ UNCHANGED <<feed, lastCall>>
          ELSE /\ crashed' = FALSE
               /\ feed' = [feed EXCEPT !.phase = "handler",
                                       !.afterStop = (feed.stopHook # NULL)]
               /\ lastCall' = [NoCall EXCEPT !.p = p, !.hook = feed.hook,
                                  !.handler = h, !.args = Arglist(p, feed.hook),
                                  !.obj = obj_store[p]]
    /\ UNCHANGED more
    /\ UNCHANGED <<config_obj, cfg_state, cfg_hooks, connp_state, connp_cfg,
                   obj_store, callback, request_file_data_callback, refs,
                   status, consumed, pyerr, lastReg, errAt, count>>

\* What htp_hook_run_all and its callers make of the value a callback
\* returned: "next" entry, or the stream state the feed ends with.
htp_hook_result(gates, ret) ==
    IF ~gates \/ ret \in {HTP_OK, HTP_DECLINED} THEN "next"
    ELSE IF ret = HTP_STOP THEN "HTP_STREAM_STOP"
    ELSE "HTP_STREAM_ERROR"

\* The handler comes back and the trampoline returns to the engine.  A
\* transaction or data hook passes the value up; htp_log drops it; for a
\* file data callback both are allowed (gates), the multipart parser of
\* libhtp deciding.
Trampoline_return(outcome) ==
    /\ ~crashed
    /\ feed.phase = "handler"
    /\ LET p == feed.p
           d == feed.dir
           r == CallObject(outcome, pyerr)
           f == IF outcome = Returns(HTP_STOP) /\ feed.stopHook = NULL
                THEN [feed EXCEPT !.stopHook = feed.hook, !.stopPos = feed.pos]
                ELSE feed
       IN /\ lastCall' = [lastCall EXCEPT !.outcome = outcome, !.ret = r.ret]
          /\ errAt' = IF outcome = Returns(HTP_ERROR)
                         /\ (errAt[p][d] = NULL \/ feed.hook \in Gating)
                      THEN [errAt EXCEPT ![p][d] = feed.hook]
                      ELSE errAt
          /\ \E gates \in (IF feed.hook = FileHook THEN BOOLEAN
                           ELSE {feed.hook \in Gating}) :
               LET x == htp_hook_result(gates /\ feed.resume = "run", r.ret)
               IN IF x = "next"
                  THEN /\ feed' = [f EXCEPT !.phase = "hooks", !.idx = @ + 1]
                       /\ pyerr' = r.pyerr
                       /\ UNCHANGED status
                  ELSE /\ feed' = Return(f, x)
                       /\ pyerr' = PyErrAfter(x, r.pyerr)
                       /\ status' = [status EXCEPT ![p][d] = x]
    /\ UNCHANGED more
    /\ UNCHANGED <<config_obj, cfg_state, cfg_hooks, connp_state, connp_cfg,
                   obj_store, callback, request_file_data_callback, refs,
                   consumed, crashed, lastReg, count>>

\* Every entry ran: the engine goes on parsing, or returns the refusal it
\* had logged.
htp_hook_done ==
    /\ ~crashed
    /\ feed.phase = "hooks"
    /\ feed.idx = feed.nent
    /\ IF feed.resume = "run"
       THEN /\ feed' = [feed EXCEPT !.phase = "run", !.hook = NULL, !.idx = 0,
                                    !.nent = 0, !.resume = NULL]
            /\ pyerr' = pyerr
       ELSE /\ feed' = Return(feed, feed.x)
            /\ pyerr' = PyErrAfter(feed.x, pyerr)
    /\ UNCHANGED more
    /\ UNCHANGED <<config_obj, cfg_state, cfg_hooks, connp_state, connp_cfg,
                   obj_store, callback, request_file_data_callback, refs,
                   status, consumed, crashed, lastCall, lastReg, errAt, count>>

\* The parsing loop ends without a callback asking for it: the chunk is
\* used up (DATA), the parser waits for the other direction with part of
\* the chunk unread (DATA_OTHER), the stream became a tunnel, or the input
\* is malformed.
htp_connp_data_returns(x) ==
    /\ ~crashed
    /\ feed.phase = "run"
    /\ x \in {"HTP_STREAM_DATA", "HTP_STREAM_DATA_OTHER", "HTP_STREAM_TUNNEL",
              "HTP_STREAM_ERROR"}
    /\ x = "HTP_STREAM_DATA" => feed.pos = feed.len
    /\ x = "HTP_STREAM_DATA_OTHER" => feed.pos < feed.len
    /\ status' = [status EXCEPT ![feed.p][feed.dir] = x]
    /\ feed' = Return(feed, x)
    /\ pyerr' = PyErrAfter(x, pyerr)
    /\ UNCHANGED more
    /\ UNCHANGED <<config_obj, cfg_state, cfg_hooks, connp_state, connp_cfg,
                   obj_store, callback, request_file_data_callback, refs,
                   consumed, crashed, lastCall, lastReg, errAt, count>>

(***************************************************************************)
(* Accessors of the parser fed (parser A): they read the connection that   *)
(* libhtp keeps.                                                           *)
(***************************************************************************)
\* The last element of the list of transactions: NoTx (NULL) where the
\* transaction was destroyed, and when the list has no element.
LastTx ==
    IF conn.transactions = <<>> THEN NoTx
    ELSE conn.transactions[Len(conn.transactions)]

\* size_t: htp_list_size returns one, and htp_list_size(...) - 1 is computed
\* in it, so that 0 - 1 is the largest value of the type.  The width is cut
\* down to 16 bits; only the wrap at zero matters here.
size_t(n) == n % (2 ^ 16)

\* A pointer that was not read from an element of the list: it points to
\* no transaction.
WildTx == [NoTx EXCEPT !.id = -1]

\* htp_list_get(l, idx), idx counted from 0: the element (NULL for a
\* destroyed transaction) when the list has one at idx.  For an idx beyond
\* the list the result depends on how the list checks idx: NULL when the
\* check refuses it, and what lies outside the array of the list when the
\* check lets it through (a check of idx + 1 against the size wraps for the
\* largest idx).
htp_list_get(l, idx) ==
    IF idx < Len(l) THEN {l[idx + 1]} ELSE {NoTx, WildTx}

\* htp_list_get(transactions, htp_list_size(transactions) - 1), as the
\* accessors of the last transaction compute it; htp_list_size is the
\* number of elements.
LastTxs ==
    htp_list_get(conn.transactions, size_t(Len(conn.transactions) - 1))

\* What an accessor builds from fields read through a wild pointer.
Wild(fn, arg) == [fn |-> fn, arg |-> arg, kind |-> "wild", val |-> NULL]

\* An accessor returns one of the results; a read through a wild pointer
\* may end the process instead.  Everything but got (and crashed) is left
\* as it is.
Returned(results) ==
    /\ \E r \in results :
         /\ got' = r
         /\ IF r.kind = "wild" THEN crashed' \in BOOLEAN
            ELSE UNCHANGED crashed
    /\ UNCHANGED <<conn, config_obj, cfg_state, cfg_hooks, connp_state,
           connp_cfg, obj_store, callback, request_file_data_callback,
           refs, status, consumed, pyerr, feed, lastCall, lastReg,
           errAt, count, outer, cfg_opts, wire>>

\* connp->in_tx and connp->out_tx.
InTx == IF conn.in_tx = 0 THEN NoTx ELSE conn.transactions[conn.in_tx]
OutTx == IF conn.out_tx = 0 THEN NoTx ELSE conn.transactions[conn.out_tx]

\* Everything but conn and got stays as it is: the accessors touch nothing
\* else, and neither do the engine steps that fill a transaction.
OnlyConnGot ==
    UNCHANGED <<config_obj, cfg_state, cfg_hooks, connp_state, connp_cfg,
                obj_store, callback, request_file_data_callback, refs,
                status, consumed, pyerr, crashed, feed, lastCall, lastReg,
                errAt, count, outer, cfg_opts,
                wire>>

Types == {"request", "response"}
HeaderNames == {"a", "b"}
HeaderValues == {"1", "2"}

\* htp_table_get_c: the first entry of the table with the name, 0 if none.
htp_table_get_c(tbl, name) ==
    IF \E i \in 1..Len(tbl) : tbl[i].name = name
    THEN CHOOSE i \in 1..Len(tbl) :
             /\ tbl[i].name = name
             /\ \A j \in 1..(i - 1) : tbl[j].name # name
    ELSE 0

\* What GET_HEADER returns for a name: tx->TYPE_headers read through a
\* wild tx is NULL or not, and the lookup then reads through it.
GET_HEADER(TYPE, name) ==
    LET fn == "get_" \o TYPE \o "_header"
        of(tx) ==
            IF tx = WildTx THEN {Error(fn, name), Wild(fn, name)}
            ELSE IF tx.id = 0 THEN {Error(fn, name)}
            ELSE LET hdr == htp_table_get_c(tx.headers[TYPE], name)
                 IN IF hdr = 0 THEN {None(fn, name)}
                    ELSE {Value(fn, name, tx.headers[TYPE][hdr].value)}
    IN UNION {of(tx) : tx \in LastTxs}

\* A Python dictionary is a set of <<key, value>> pairs with one pair per
\* key: PyDict_SetItem replaces the value of a key that is there.
PyDict_SetItem(dict, key, val) ==
    {e \in dict : e[1] # key} \cup {<<key, val>>}

\* The loop of GET_ALL_HEADERS over the entries of the table, in order.
RECURSIVE SetItems(_, _)
SetItems(tbl, ret) ==
    IF tbl = <<>> THEN ret
    ELSE SetItems(Tail(tbl),
                  PyDict_SetItem(ret, Head(tbl).name, Head(tbl).value))

\* What GET_ALL_HEADERS returns.
GET_ALL_HEADERS(TYPE) ==
    LET fn == "get_all_" \o TYPE \o "_headers"
        of(tx) ==
            IF tx = WildTx THEN {Error(fn, NULL), Wild(fn, NULL)}
            ELSE IF tx.id = 0 THEN {Error(fn, NULL)}
            ELSE {Value(fn, NULL, SetItems(tx.headers[TYPE], {}))}
    IN UNION {of(tx) : tx \in LastTxs}

htpy_connp_get_header(TYPE, name) ==
    /\ HostRuns
    /\ connp_state["A"] = "live"
    /\ Returned(GET_HEADER(TYPE, name))

htpy_connp_get_all_headers(TYPE) ==
    /\ HostRuns
    /\ connp_state["A"] = "live"
    /\ Returned(GET_ALL_HEADERS(TYPE))

\* The transaction whose message of the direction is being parsed.
CurrentTx(TYPE) == IF TYPE = "request" THEN conn.in_tx ELSE conn.out_tx

\* Header lines a table holds, folded ones included.
RECURSIVE HeaderLines(_)
HeaderLines(tbl) ==
    IF tbl = <<>> THEN 0 ELSE Len(Head(tbl).value) + HeaderLines(Tail(tbl))

\* The engine has parsed a header line of the message.  A name that is in
\* the table already is either folded into its entry (the value is added to
\* the entry's) or added as another entry: which of the two the engine does
\* is left open.
htp_process_header(TYPE, name, value, fold) ==
    /\ CurrentTx(TYPE) # 0
    /\ LET i == CurrentTx(TYPE)
           tbl == conn.transactions[i].headers[TYPE]
           hdr == htp_table_get_c(tbl, name)
       IN /\ HeaderLines(conn.transactions[i].headers["request"])
               + HeaderLines(conn.transactions[i].headers["response"])
               < MaxHeaders
          /\ conn' = [conn EXCEPT !.transactions[i].headers[TYPE] =
                        IF fold /\ hdr # 0
                        THEN [tbl EXCEPT ![hdr].value = Append(@, value)]
                        ELSE Append(tbl, [name |-> name, value |-> <<value>>])]
    /\ got' = NoGet
    /\ OnlyConnGot

\* The bstr components of htp_uri_t, in the order get_uri reads them.
Components ==
    <<"scheme", "username", "password", "hostname", "port", "path", "query",
      "fragment">>

\* bstr_util_strdup_to_c: the C string of a bstr (its bytes are "v", some
\* byte that is not NUL, or "NUL"); a NUL byte of the bstr becomes the two
\* characters backslash and 0.
RECURSIVE bstr_util_strdup_to_c(_)
bstr_util_strdup_to_c(b) ==
    IF b = <<>> THEN <<>>
    ELSE (IF Head(b) = "NUL" THEN <<"\\", "0">> ELSE <<Head(b)>>)
         \o bstr_util_strdup_to_c(Tail(b))

\* The blocks of get_uri from the i-th on: one entry for every component
\* whose pointer is not NULL, and after "port" one for port_number when
\* the number is not zero.
RECURSIVE UriItems(_, _, _)
UriItems(uri, i, ret) ==
    IF i > Len(Components) THEN ret
    ELSE LET c == Components[i]
             r1 == IF uri[c] # NullPtr
                   THEN PyDict_SetItem(ret, c,
                                       bstr_util_strdup_to_c(Deref(uri[c])))
                   ELSE ret
             r2 == IF c = "port" /\ uri.port_number # 0
                   THEN PyDict_SetItem(r1, "port_number", uri.port_number)
                   ELSE r1
         IN UriItems(uri, i + 1, r2)

\* What get_uri returns.
get_uri ==
    IF InTx.id = 0 THEN None("get_uri", NULL)
    ELSE IF InTx.parsed_uri = NullPtr THEN None("get_uri", NULL)
    ELSE Value("get_uri", NULL, UriItems(Deref(InTx.parsed_uri), 1, {}))

htpy_connp_get_uri ==
    /\ HostRuns
    /\ connp_state["A"] = "live"
    /\ got' = get_uri
    /\ UNCHANGED conn
    /\ OnlyConnGot

\* The port number the engine derives from the port of the URI: the number
\* when the port is a positive number, and a value that stands for "none"
\* otherwise, which is -1 or 0.
PortNumbers(port) ==
    IF port = PtrTo(<<"v">>) THEN {Port} ELSE {-1, 0}

\* Parsed URIs but for the path: every component is absent (NULL), empty,
\* or one byte long.
ParsedUris ==
    [{"scheme", "username", "password", "hostname", "port", "query",
      "fragment"} -> {NullPtr, PtrTo(<<>>), PtrTo(<<"v">>)}]

\* Paths: absent, empty, one byte, or a NUL byte.
Paths == {NullPtr, PtrTo(<<>>), PtrTo(<<"v">>), PtrTo(<<"NUL">>)}

\* The engine has parsed the request line of the transaction being read
\* and stored its URI.
htp_parse_uri(u, path, n) ==
    /\ conn.in_tx # 0
    /\ InTx.parsed_uri = NullPtr
    /\ conn' = [conn EXCEPT !.transactions[conn.in_tx].parsed_uri =
                    PtrTo([c \in DOMAIN u \cup {"path", "port_number"} |->
                              IF c = "path" THEN path
                              ELSE IF c = "port_number" THEN n ELSE u[c]])]
    /\ got' = NoGet
    /\ OnlyConnGot

(***************************************************************************)
(* Transactions.  The engine keeps the list conn->transactions, the        *)
(* transaction whose request it is reading (in_tx) and the one whose       *)
(* response it is reading (out_tx).  What a field of a transaction holds   *)
(* is named by the field and the transaction: <<field, id>>.               *)
(***************************************************************************)
\* The stages of one side of a transaction.
Stages == <<"none", "start", "line", "body", "complete">>
StageNo(st) == CHOOSE i \in 1..Len(Stages) : Stages[i] = st

\* tx->request_##field / tx->response_##field: a NULL pointer or a zero
\* number (NullPtr) until the engine has set it.  SetFrom is the stage from
\* which the field is set: the fields of the first line when the line is
\* parsed, the lengths when the body is being read.
Field(tx, TYPE, field) ==
    LET progress == IF TYPE = "request" THEN tx.request_progress
                    ELSE tx.response_progress
        SetFrom == IF field \in {"message_len", "entity_len"} THEN "body"
                   ELSE "line"
    IN IF tx.id # 0 /\ StageNo(progress) >= StageNo(SetFrom)
       THEN PtrTo(<<TYPE \o "_" \o field, tx.id>>)
       ELSE NullPtr

get_method ==
    LET fn == "get_method"
        of(tx) ==
            IF tx = WildTx THEN {Error(fn, NULL), Wild(fn, NULL)}
            ELSE IF tx.id = 0 \/ Field(tx, "request", "method") = NullPtr
            THEN {Error(fn, NULL)}
            ELSE {Value(fn, NULL, Field(tx, "request", "method"))}
    IN UNION {of(tx) : tx \in LastTxs}

get_response_status ==
    LET fn == "get_response_status"
        of(tx) ==
            IF tx = WildTx THEN {Wild(fn, NULL)}
            ELSE IF tx.id = 0 THEN {Error(fn, NULL)}
            ELSE {Value(fn, NULL, Field(tx, "response", "status_number"))}
    IN UNION {of(tx) : tx \in LastTxs}

\* get_request_line, get_response_line, get_*_protocol,
\* get_*_protocol_number, get_*_message_length, get_*_entity_length: they
\* read connp->in_tx (request) or connp->out_tx (response), and give None
\* when there is none or when the field is NULL or zero.
get_current(TYPE, field) ==
    LET tx == IF TYPE = "request" THEN InTx ELSE OutTx
        fn == "get_" \o TYPE \o "_" \o field
    IN IF tx.id = 0 THEN None(fn, NULL)
       ELSE IF Field(tx, TYPE, field) = NullPtr THEN None(fn, NULL)
       ELSE Value(fn, NULL, Field(tx, TYPE, field))

CurrentFields ==
    {"line", "protocol", "protocol_number", "message_len", "entity_len"}

\* An accessor may be called between feeds and from inside a handler.
MayRead == ~crashed /\ feed.phase \in {"none", "done", "handler"}

htpy_connp_get_method ==
    /\ MayRead
    /\ connp_state["A"] = "live"
    /\ Returned(get_method)

htpy_connp_get_response_status ==
    /\ MayRead
    /\ connp_state["A"] = "live"
    /\ Returned(get_response_status)

\* get_response_status_string builds its value from tx->response_status
\* without looking whether the pointer is NULL: bstr_ptr and bstr_len of a
\* NULL pointer read through it, which crashes or yields whatever is read.
htpy_connp_get_response_status_string ==
    /\ MayRead
    /\ connp_state["A"] = "live"
    /\ \E tx \in LastTxs :
         LET fn == "get_response_status_string"
         IN IF tx = WildTx
            THEN Returned({Wild(fn, NULL)})
            ELSE IF tx.id = 0
            THEN Returned({Error(fn, NULL)})
            ELSE IF Field(tx, "response", "status") = NullPtr
            THEN /\ crashed' \in BOOLEAN
                 /\ got' = Value(fn, NULL, PtrTo(<<"garbage", 0>>))
                 /\ UNCHANGED <<conn, config_obj, cfg_state, cfg_hooks,
                                connp_state, connp_cfg, obj_store, callback,
                                request_file_data_callback, refs, status,
                                consumed, pyerr, feed, lastCall, lastReg,
                                errAt, count, outer, cfg_opts, wire>>
            ELSE Returned({Value(fn, NULL, Field(tx, "response", "status"))})

htpy_connp_get_current(TYPE, field) ==
    /\ MayRead
    /\ connp_state["A"] = "live"
    /\ got' = get_current(TYPE, field)
    /\ UNCHANGED conn
    /\ OnlyConnGot

\* The engine, reading the chunk of a feed on parser A.
Parsing(dir) ==
    /\ ~crashed
    /\ feed.phase = "run"
    /\ feed.p = "A"
    /\ feed.dir = dir
    /\ conn.final_tx = 0

\* What an engine step on the transactions leaves alone.
OnlyConn ==
    /\ got' = NoGet
    /\ OnlyConnGot

\* A request begins: a transaction is created and added to the list.
htp_tx_state_request_start ==
    /\ Parsing("req")
    /\ conn.in_tx = 0
    /\ Len(conn.transactions) < MaxTx
    /\ LET i == Len(conn.transactions) + 1
       IN conn' = [conn EXCEPT !.transactions = Append(@, NewTx(i)),
                               !.in_tx = i]
    /\ OnlyConn

\* The response of the next transaction that has none begins.
htp_tx_state_response_start ==
    /\ Parsing("res")
    /\ conn.out_tx = 0
    /\ \E i \in 1..Len(conn.transactions) :
         /\ conn.transactions[i].id # 0
         /\ conn.transactions[i].response_progress = "none"
         /\ \A j \in 1..(i - 1) :
              conn.transactions[j].id # 0 =>
                  conn.transactions[j].response_progress # "none"
         /\ conn' = [conn EXCEPT !.transactions[i].response_progress = "start",
                                 !.out_tx = i]
    /\ OnlyConn

\* The first line of the message is parsed, and then its body is read.
htp_tx_state_request_progress ==
    /\ Parsing("req")
    /\ conn.in_tx # 0
    /\ InTx.request_progress \in {"start", "line"}
    /\ conn' = [conn EXCEPT !.transactions[conn.in_tx].request_progress =
                    Stages[StageNo(@) + 1]]
    /\ OnlyConn

htp_tx_state_response_progress ==
    /\ Parsing("res")
    /\ conn.out_tx # 0
    /\ OutTx.response_progress \in {"start", "line"}
    /\ conn' = [conn EXCEPT !.transactions[conn.out_tx].response_progress =
                    Stages[StageNo(@) + 1]]
    /\ OnlyConn

\* htp_tx_finalize, called when a side of transaction i is complete: when
\* both sides are, the transaction_complete hook is run on it.
htp_tx_finalize(c, i) ==
    IF /\ c.transactions[i].request_progress = "complete"
       /\ c.transactions[i].response_progress = "complete"
    THEN /\ conn' = [c EXCEPT !.final_tx = i]
         /\ UseCfg(feed.p)
         /\ feed' = [feed EXCEPT
                        !.phase = "hooks", !.hook = "transaction_complete",
                        !.idx = 0,
                        !.nent = cfg_hooks[connp_cfg[feed.p]]["transaction_complete"],
                        !.resume = "run"]
    ELSE /\ conn' = c
         /\ UNCHANGED feed

\* The message is complete: the parser lets go of the transaction.
htp_tx_state_request_complete ==
    /\ Parsing("req")
    /\ conn.in_tx # 0
    /\ InTx.request_progress = "body"
    /\ htp_tx_finalize(
          [conn EXCEPT !.transactions[conn.in_tx].request_progress = "complete",
                       !.in_tx = 0], conn.in_tx)
    /\ got' = NoGet
    /\ UNCHANGED <<config_obj, cfg_state, cfg_hooks, connp_state, connp_cfg,
                   obj_store, callback, request_file_data_callback, refs,
                   status, consumed, pyerr, crashed, lastCall, lastReg,
                   errAt, count, outer, cfg_opts,
                wire>>

htp_tx_state_response_complete ==
    /\ Parsing("res")
    /\ conn.out_tx # 0
    /\ OutTx.response_progress = "body"
    /\ htp_tx_finalize(
          [conn EXCEPT !.transactions[conn.out_tx].response_progress = "complete",
                       !.out_tx = 0], conn.out_tx)
    /\ got' = NoGet
    /\ UNCHANGED <<config_obj, cfg_state, cfg_hooks, connp_state, connp_cfg,
                   obj_store, callback, request_file_data_callback, refs,
                   status, consumed, pyerr, crashed, lastCall, lastReg,
                   errAt, count, outer, cfg_opts,
                wire>>

\* After the hook: with tx_auto_destroy the transaction is destroyed, and
\* htp_conn_remove_tx puts NULL in its place in the list.
htp_tx_destroy ==
    /\ ~crashed
    /\ feed.phase = "run"
    /\ conn.final_tx # 0
    /\ conn' = [conn EXCEPT
                   !.transactions[conn.final_tx] =
                       IF cfg_opts.tx_auto_destroy # 0 THEN NoTx ELSE @,
                   !.final_tx = 0]
    /\ OnlyConn

(***************************************************************************)
(* A request fed in chunks.  Bytes are one-character strings, "LF" ends a  *)
(* line.  The engine keeps the unfinished line of a chunk in in_buf.       *)
(***************************************************************************)
\* Valid requests: a request line, header lines, an empty line, and the
\* body the header c announces.
Requests ==
    {<<"G", " ", "/", " ", "1", "LF", "LF">>,
     <<"G", " ", "/", " ", "1", "LF", "h", ":", "v", "LF", "LF">>,
     <<"P", " ", "/", " ", "1", "LF", "c", ":", "1", "LF", "LF", "b">>}

\* The header block is read when the empty line is.
HeadersDone(c) == \E i \in 1..Len(c.lines) : c.lines[i] = <<>>

\* The request is read when its headers are and the body bytes they
\* announce (header c, the Content-Length) are.
RequestDone(c) ==
    LET ContentLength ==
            IF \E i \in 1..Len(c.lines) : c.lines[i] = <<"c", ":", "1">>
            THEN 1 ELSE 0
    IN HeadersDone(c) /\ c.body = ContentLength

\* The engine reads one byte: a byte of the body, the end of a line, or a
\* byte of a line that is kept until the line ends.
htp_connp_req_byte(c, b) ==
    IF RequestDone(c) THEN c
    ELSE IF HeadersDone(c)
    THEN [c EXCEPT !.body = @ + 1, !.in_stream_offset = @ + 1]
    ELSE IF b = "LF"
    THEN [c EXCEPT !.lines = Append(@, c.in_buf), !.in_buf = <<>>,
                   !.in_stream_offset = @ + 1]
    ELSE [c EXCEPT !.in_buf = Append(@, b), !.in_stream_offset = @ + 1]

\* The engine reads the chunk it was given.
RECURSIVE htp_connp_req_bytes(_, _)
htp_connp_req_bytes(c, data) ==
    IF data = <<>> THEN c
    ELSE htp_connp_req_bytes(htp_connp_req_byte(c, Head(data)), Tail(data))

\* The parts of a line between separators.
RECURSIVE Split(_, _, _)
Split(line, sep, part) ==
    IF line = <<>> THEN <<part>>
    ELSE IF Head(line) = sep THEN <<part>> \o Split(Tail(line), sep, <<>>)
    ELSE Split(Tail(line), sep, Append(part, Head(line)))

\* The fields of the transaction the engine has made of the lines read:
\* method, URI and protocol of the request line, the headers, the length of
\* the body.
TxFields(c) ==
    [request_line |-> IF c.lines = <<>> THEN <<>>
                      ELSE Split(c.lines[1], " ", <<>>),
     request_headers |-> [i \in 1..(Len(c.lines) - 1) |->
                            Split(c.lines[i + 1], ":", <<>>)],
     request_message_len |-> c.body]

\* PyArg_ParseTuple with "s#": the pointer to the bytes of the string and
\* their number.  (A faulty variant gives a length one short.)
PyArg_ParseTuple_short(buf) ==
    [data |-> buf, len |-> IF buf = <<>> THEN 0 ELSE Len(buf) - 1]

PyArg_ParseTuple(buf) == [data |-> buf, len |-> Len(buf)]

\* req_data on the next len bytes of the request, when no hook is
\* registered: the engine refuses the chunk or reads all of it.
DATA_chunk(len) ==
    /\ HostCalls
    /\ connp_state["A"] = "live"
    /\ UseCfg("A")
    /\ len \in 0..(Len(wire.request) - wire.sent)
    /\ LET a == PyArg_ParseTuple(
                    SubSeq(wire.request, wire.sent + 1, wire.sent + len))
           x == htp_connp_data_refuses(status["A"]["req"], a.len)
           f == [NoFeed EXCEPT !.p = "A", !.dir = "req", !.len = a.len]
       IN IF x # NULL
          THEN /\ feed' = Return([f EXCEPT !.pos = consumed["A"]["req"]], x)
               /\ pyerr' = PyErrAfter(x, pyerr)
               /\ UNCHANGED <<conn, status, consumed>>
          ELSE /\ conn' = htp_connp_req_bytes(conn, SubSeq(a.data, 1, a.len))
               /\ consumed' = [consumed EXCEPT !["A"]["req"] = a.len]
               /\ status' = [status EXCEPT !["A"]["req"] = "HTP_STREAM_DATA"]
               /\ feed' = Return([f EXCEPT !.pos = a.len], "HTP_STREAM_DATA")
               /\ pyerr' = PyErrAfter("HTP_STREAM_DATA", pyerr)
    /\ wire' = [wire EXCEPT !.sent = @ + len]
    /\ count' = Called
    /\ lastCall' = NoCall
    /\ got' = NoGet
    /\ UNCHANGED <<config_obj, cfg_state, cfg_hooks, connp_state, connp_cfg,
                   obj_store, callback, request_file_data_callback, refs,
                   crashed, lastReg, errAt, outer, cfg_opts>>

(***************************************************************************)
(* Options of the htpy.config object: the getters and setters of           *)
(* log_level and tx_auto_destroy.                                          *)
(***************************************************************************)
\* What the host may assign.  A Python int is a C long: hi is what lies
\* above the 32 bits of a C int, lo the 32 bits themselves.  "del" is the
\* deletion of the attribute (the setter gets a NULL value).
PyInt(hi, lo) == [type |-> "int", hi |-> hi, lo |-> lo]
PyValues ==
    {PyInt(hi, lo) : hi \in {0, 1},
                     lo \in {-1, 0, 1, HTP_LOG_DEBUG2, HTP_LOG_DEBUG2 + 1,
                             HTP_PROTOCOL_1_1}}
    \cup {[type |-> t, hi |-> 0, lo |-> 0] : t \in {"str", "None", "long", "del"}}

PyInt_Check(value) == value.type = "int"

\* (int) PyInt_AsLong(value): the low 32 bits of the long.
IntOfLong(value) == value.lo

Attrs == {"log_level", "tx_auto_destroy"}

\* The values an option is meant to take: a log level of the engine, a
\* flag.
Valid(ATTR, value) ==
    LET ValidValues == IF ATTR = "log_level" THEN 0..HTP_LOG_DEBUG2
                       ELSE {0, 1}
    IN PyInt_Check(value) /\ value.hi = 0 /\ value.lo \in ValidValues

\* A setter call and how it ended; val is the option before the call.
Set(ATTR, value, kind) ==
    [fn |-> "set_" \o ATTR, arg |-> value, kind |-> kind, val |-> cfg_opts[ATTR]]

\* A faulty CONFIG_SET: a value that is not an int is stored as 0.
CONFIG_SET_no_check(ATTR, value) ==
    IF value.type = "del"
    THEN [opts |-> cfg_opts, got |-> Set(ATTR, value, "htpy.error")]
    ELSE [opts |-> [cfg_opts EXCEPT ![ATTR] = IntOfLong(value)],
          got |-> Set(ATTR, value, "ok")]

\* CONFIG_SET(tx_auto_destroy) and htpy_config_set_log_level: the same
\* checks, then the value is stored (by htp_config_set_tx_auto_destroy, or
\* in cfg->log_level directly).
CONFIG_SET(ATTR, value) ==
    IF value.type = "del"
    THEN [opts |-> cfg_opts, got |-> Set(ATTR, value, "htpy.error")]
    ELSE IF ~PyInt_Check(value)
    THEN [opts |-> cfg_opts, got |-> Set(ATTR, value, "htpy.error")]
    ELSE [opts |-> [cfg_opts EXCEPT ![ATTR] = IntOfLong(value)],
          got |-> Set(ATTR, value, "ok")]

OnlyOptsGot ==
    UNCHANGED <<config_obj, cfg_state, cfg_hooks, connp_state, connp_cfg,
                obj_store, callback, request_file_data_callback, refs,
                status, consumed, pyerr, crashed, feed, lastCall, lastReg,
                errAt, count, conn, outer, wire>>

htpy_config_set(ATTR, value) ==
    /\ HostRuns
    /\ config_obj = "live"
    /\ cfg_opts' = CONFIG_SET(ATTR, value).opts
    /\ got' = CONFIG_SET(ATTR, value).got
    /\ OnlyOptsGot

\* CONFIG_GET
htpy_config_get(ATTR) ==
    /\ HostRuns
    /\ config_obj = "live"
    /\ got' = Value("get_" \o ATTR, NULL, cfg_opts[ATTR])
    /\ UNCHANGED cfg_opts
    /\ OnlyOptsGot

\* The state after construction: parser A, built without a config object,
\* with the default configuration htpy_connp_init made for it.
Init ==
    /\ config_obj = "none"
    /\ cfg_state = [c \in CfgIds |->
                      IF c = DefaultCfg("A") THEN "live" ELSE "unalloc"]
    /\ connp_state = [p \in Parsers |-> IF p = "A" THEN "live" ELSE "none"]
    /\ connp_cfg = [p \in Parsers |->
                      IF p = "A" THEN DefaultCfg("A") ELSE NULL]
    /\ Blank

\* Hook dispatch: registration, user context and feeding on constructed
\* parsers.
Next ==
    \/ \E p \in Parsers, CB \in ConnpHooks \cap ParsingHooks,
          temp \in Handlers : REGISTER_CALLBACK(p, CB, temp)
    \/ \E p \in Parsers, temp \in Handlers :
         htpy_connp_register_request_file_data(p, temp)
    \/ \E p \in Parsers, obj \in UserObjs : htpy_connp_set_obj(p, obj)
    \/ \E p \in Parsers : htpy_connp_del_obj(p)
    \/ \E p \in Parsers, TYPE \in Dirs, len \in 0..MaxLen : DATA(p, TYPE, len)
    \/ htp_consume
    \/ \E hook \in AllHooks : htp_hook_run_all(hook)
    \/ Trampoline_call
    \/ \E outcome \in Outcomes : Trampoline_return(outcome)
    \/ htp_hook_done
    \/ \E x \in StreamStates : htp_connp_data_returns(x)

Spec == Init /\ [][Next]_vars

\* Object lifetime: configs and parsers are created and destroyed, handlers
\* and user contexts attached; nothing is fed.
InitLife ==
    /\ config_obj = "none"
    /\ cfg_state = [c \in CfgIds |-> "unalloc"]
    /\ connp_state = [p \in Parsers |-> "none"]
    /\ connp_cfg = [p \in Parsers |-> NULL]
    /\ Blank

NextLife ==
    \/ htpy_config_init
    \/ htpy_config_dealloc
    \/ \E p \in Parsers, withCfg \in BOOLEAN : htpy_connp_init(p, withCfg)
    \/ \E p \in Parsers : htpy_connp_dealloc(p)
    \/ \E p \in Parsers, CB \in ConnpHooks \cap ParsingHooks,
          temp \in Handlers : REGISTER_CALLBACK(p, CB, temp)
    \/ \E p \in Parsers, temp \in Handlers :
         htpy_connp_register_request_file_data(p, temp)
    \/ \E p \in Parsers, obj \in UserObjs : htpy_connp_set_obj(p, obj)
    \/ \E p \in Parsers : htpy_connp_del_obj(p)

SpecLife == InitLife /\ [][NextLife]_vars

\* Two parsers: both built on the host's config object, or each with the
\* default configuration of its own.  The host registers transaction and
\* file data handlers, feeds requests and destroys parsers; handlers return
\* OK.
InitShared ==
    /\ \E shared \in BOOLEAN :
         /\ config_obj = IF shared THEN "live" ELSE "none"
         /\ cfg_state = [c \in CfgIds |->
                           IF shared = (c = HostCfg) THEN "live" ELSE "unalloc"]
         /\ connp_cfg = [p \in Parsers |->
                           IF shared THEN HostCfg ELSE DefaultCfg(p)]
    /\ connp_state = [p \in Parsers |-> "live"]
    /\ Blank

NextShared ==
    \/ \E p \in Parsers, CB \in TxHooks \cap ParsingHooks :
         REGISTER_CALLBACK(p, CB, "h1")
    \/ \E p \in Parsers, temp \in Handlers :
         htpy_connp_register_request_file_data(p, temp)
    \/ \E p \in Parsers : htpy_connp_dealloc(p)
    \/ \E p \in Parsers, len \in 1..MaxLen : DATA(p, "req", len)
    \/ htp_consume
    \/ \E hook \in (TxHooks \cap ParsingHooks) \cup {FileHook} :
         htp_hook_run_all(hook)
    \/ Trampoline_call
    \/ Trampoline_return(Returns(HTP_OK))
    \/ htp_hook_done
    \/ \E x \in StreamStates : htp_connp_data_returns(x)

SpecShared == InitShared /\ [][NextShared]_vars

\* Header access: parser A after some feeds; the list of transactions is
\* empty, or its last transaction was destroyed, or its last transaction is
\* being parsed in both directions and the engine adds header lines to it.
InitHdr ==
    /\ config_obj = "none"
    /\ cfg_state = [c \in CfgIds |->
                      IF c = DefaultCfg("A") THEN "live" ELSE "unalloc"]
    /\ connp_state = [p \in Parsers |-> IF p = "A" THEN "live" ELSE "none"]
    /\ connp_cfg = [p \in Parsers |->
                      IF p = "A" THEN DefaultCfg("A") ELSE NULL]
    /\ cfg_hooks = [c \in CfgIds |-> [h \in AllHooks |-> 0]]
    /\ obj_store = [p \in Parsers |-> NULL]
    /\ callback = [p \in Parsers |-> [h \in ConnpHooks |-> NULL]]
    /\ request_file_data_callback = NULL
    /\ refs = [w \in Owners |-> [o \in PyObjs |-> 0]]
    /\ status = [p \in Parsers |-> [d \in Dirs |-> "HTP_STREAM_NEW"]]
    /\ consumed = [p \in Parsers |-> [d \in Dirs |-> 0]]
    /\ pyerr = FALSE /\ crashed = FALSE
    /\ feed = NoFeed /\ lastCall = NoCall /\ lastReg = NoReg
    /\ errAt = [p \in Parsers |-> [d \in Dirs |-> NULL]]
    /\ count = 0
    /\ got = NoGet /\ outer = NoFeed /\ cfg_opts = DefaultOpts
    /\ wire = NoWire
    /\ \E txs \in {<<>>, <<NoTx>>, <<NewTx(1)>>} :
         conn = [NoConn EXCEPT !.transactions = txs,
                               !.in_tx = IF txs = <<NewTx(1)>> THEN 1 ELSE 0,
                               !.out_tx = IF txs = <<NewTx(1)>> THEN 1 ELSE 0]

NextHdr ==
    \/ \E TYPE \in Types, name \in HeaderNames, value \in HeaderValues,
          fold \in BOOLEAN : htp_process_header(TYPE, name, value, fold)
    \/ \E TYPE \in Types, name \in HeaderNames :
         htpy_connp_get_header(TYPE, name)
    \/ \E TYPE \in Types : htpy_connp_get_all_headers(TYPE)

SpecHdr == InitHdr /\ [][NextHdr]_vars

\* URI access: from the states of InitHdr (no transaction being read, or
\* one whose request line is not parsed yet), the engine parses the URI and
\* the host asks for it.
NextUri ==
    \/ \E u \in ParsedUris, path \in Paths :
         \E n \in PortNumbers(u["port"]) : htp_parse_uri(u, path, n)
    \/ htpy_connp_get_uri

SpecUri == InitHdr /\ [][NextUri]_vars

\* The accessors of the last transaction, from the states of InitHdr: the
\* host calls any of them on a list that is empty, that ends with a
\* destroyed transaction, or that ends with a transaction being parsed.
NextLast ==
    \/ NextHdr
    \/ htpy_connp_get_method
    \/ htpy_connp_get_response_status
    \/ htpy_connp_get_response_status_string

SpecLast == InitHdr /\ [][NextLast]_vars

\* Transactions: parser A, on which register_transaction_complete(h1) was
\* called or not.  The host registers the handler (again), feeds requests
\* and responses and calls the accessors; the engine takes the
\* transactions through their stages; handlers return OK.
InitTx ==
    /\ \E n \in {0, 1} :
         /\ cfg_hooks = [c \in CfgIds |-> [h \in AllHooks |->
                IF n = 1 /\ c = DefaultCfg("A") /\ h = "transaction_complete"
                THEN 1 ELSE 0]]
         /\ callback = [p \in Parsers |-> [h \in ConnpHooks |->
                IF n = 1 /\ p = "A" /\ h = "transaction_complete"
                THEN "h1" ELSE NULL]]
         /\ refs = [w \in Owners |-> [o \in PyObjs |->
                IF n = 1 /\ w = "A" /\ o = "h1" THEN 1 ELSE 0]]
    /\ config_obj = "none"
    /\ cfg_state = [c \in CfgIds |->
                      IF c = DefaultCfg("A") THEN "live" ELSE "unalloc"]
    /\ connp_state = [p \in Parsers |-> IF p = "A" THEN "live" ELSE "none"]
    /\ connp_cfg = [p \in Parsers |->
                      IF p = "A" THEN DefaultCfg("A") ELSE NULL]
    /\ obj_store = [p \in Parsers |-> NULL]
    /\ request_file_data_callback = NULL
    /\ status = [p \in Parsers |-> [d \in Dirs |-> "HTP_STREAM_NEW"]]
    /\ consumed = [p \in Parsers |-> [d \in Dirs |-> 0]]
    /\ pyerr = FALSE /\ crashed = FALSE
    /\ feed = NoFeed /\ lastCall = NoCall /\ lastReg = NoReg
    /\ errAt = [p \in Parsers |-> [d \in Dirs |-> NULL]]
    /\ count = 0
    /\ conn = NoConn /\ got = NoGet /\ outer = NoFeed /\ cfg_opts = DefaultOpts
    /\ wire = NoWire

NextTx ==
    \/ REGISTER_CALLBACK("A", "transaction_complete", "h1")
    \/ \E TYPE \in Dirs : DATA("A", TYPE, MaxLen)
    \/ htp_consume
    \/ htp_tx_state_request_start
    \/ htp_tx_state_request_progress
    \/ htp_tx_state_request_complete
    \/ htp_tx_state_response_start
    \/ htp_tx_state_response_progress
    \/ htp_tx_state_response_complete
    \/ htp_tx_destroy
    \/ Trampoline_call
    \/ Trampoline_return(Returns(HTP_OK))
    \/ htp_hook_done
    \/ htp_connp_data_returns("HTP_STREAM_DATA")
    \/ htpy_connp_get_method
    \/ htpy_connp_get_response_status
    \/ htpy_connp_get_response_status_string
    \/ \E TYPE \in Types, field \in CurrentFields :
         htpy_connp_get_current(TYPE, field)

SpecTx == InitTx /\ [][NextTx]_vars

\* Chunks: parser A and a client that sends one valid request; the host
\* feeds it in as many calls and at whatever boundaries it likes.
InitChunk ==
    /\ config_obj = "none"
    /\ cfg_state = [c \in CfgIds |->
                      IF c = DefaultCfg("A") THEN "live" ELSE "unalloc"]
    /\ connp_state = [p \in Parsers |-> IF p = "A" THEN "live" ELSE "none"]
    /\ connp_cfg = [p \in Parsers |->
                      IF p = "A" THEN DefaultCfg("A") ELSE NULL]
    /\ conn = NoConn
    /\ got = NoGet
    /\ outer = NoFeed
    /\ cfg_opts = DefaultOpts
    /\ cfg_hooks = [c \in CfgIds |-> [h \in AllHooks |-> 0]]
    /\ obj_store = [p \in Parsers |-> NULL]
    /\ callback = [p \in Parsers |-> [h \in ConnpHooks |-> NULL]]
    /\ request_file_data_callback = NULL
    /\ refs = [w \in Owners |-> [o \in PyObjs |-> 0]]
    /\ status = [p \in Parsers |-> [d \in Dirs |-> "HTP_STREAM_NEW"]]
    /\ consumed = [p \in Parsers |-> [d \in Dirs |-> 0]]
    /\ pyerr = FALSE /\ crashed = FALSE
    /\ feed = NoFeed /\ lastCall = NoCall /\ lastReg = NoReg
    /\ errAt = [p \in Parsers |-> [d \in Dirs |-> NULL]]
    /\ count = 0
    /\ \E r \in Requests : wire = [request |-> r, sent |-> 0]

NextChunk == \E len \in 0..Len(wire.request) : DATA_chunk(len)

SpecChunk == InitChunk /\ [][NextChunk]_vars

\* Options: a config object just made; the host reads and assigns its
\* options.
InitCfg ==
    /\ config_obj = "live"
    /\ cfg_state = [c \in CfgIds |-> IF c = HostCfg THEN "live" ELSE "unalloc"]
    /\ connp_state = [p \in Parsers |-> "none"]
    /\ connp_cfg = [p \in Parsers |-> NULL]
    /\ Blank

NextCfg ==
    \/ \E ATTR \in Attrs, value \in PyValues : htpy_config_set(ATTR, value)
    \/ \E ATTR \in Attrs : htpy_config_get(ATTR)

SpecCfg == InitCfg /\ [][NextCfg]_vars

\* Re-entry: parser A; the handler of request_line may call req_data or
\* res_data of the parser while it runs.
NextReentry ==
    \/ REGISTER_CALLBACK("A", "request_line", "h1")
    \/ \E TYPE \in Dirs, len \in 0..MaxLen :
         outer = NoFeed /\ DATA("A", TYPE, len)
    \/ \E TYPE \in Dirs, len \in 0..MaxLen : DATA_in_handler("A", TYPE, len)
    \/ DATA_in_handler_returns
    \/ htp_consume
    \/ htp_hook_run_all("request_line")
    \/ Trampoline_call
    \/ \E outcome \in {Returns(HTP_OK), Returns(HTP_STOP)} :
         Trampoline_return(outcome)
    \/ htp_hook_done
    \/ \E x \in StreamStates : htp_connp_data_returns(x)

SpecReentry == Init /\ [][NextReentry]_vars

(***************************************************************************)
(* Properties.                                                             *)
(***************************************************************************)
\* The feed in progress, or just returned, is on direction d of parser p.
FeedOn(p, d) == feed.p = p /\ feed.dir = d

\* Invocations made so far for the hook event the engine is running.
Invocations == feed.idx + (IF feed.phase = "handler" THEN 1 ELSE 0)

\* Positions of an argument tuple that hold a user context.
UserArgs(args) == {i \in 1..Len(args) : args[i] \in UserObjs}

\* C1: when the handler of a transaction or data hook returns STOP during a
\* feed, that feed ends with htpy.stop (not htpy.error), no handler of the
\* parser is invoked after it in that call, and the consumed counter of the
\* direction does not pass the place where the engine stood.  (The claim
\* says so of every registered handler; it fails already for the hooks
\* whose result the engine honours.)
C1_StopEndsFeed ==
    feed.stopHook \in Gating =>
        /\ ~feed.afterStop
        /\ feed.phase = "done"
        /\ feed.exc = "htpy.stop"
        /\ DATA_CONSUMED(feed.p, feed.dir) <= feed.stopPos

C3_RaiseIsError ==
    /\ \A pending \in BOOLEAN :
         CallObject(Raises, pending) = CallObject(Returns(HTP_ERROR), pending)
    /\ lastCall.outcome = Raises =>
         /\ lastCall.ret = HTP_ERROR
         /\ ~pyerr
         /\ lastCall.hook \in Gating =>
                feed.phase = "done" /\ feed.exc = "htpy.error"

\* The handler of a data hook raised and the feed ended with htpy.error.
C3_Witness ==
    /\ lastCall.outcome = Raises
    /\ lastCall.hook \in DataHooks
    /\ lastCall.ret = HTP_ERROR
    /\ feed.phase = "done" /\ feed.exc = "htpy.error"

\* C4: a handler invoked for a slot of a parser is the one the slot holds
\* now; after register_X replaced h1 by h2, an event of X invokes h2; and
\* the parser holds one reference per slot on the handlers in its slots and
\* none on a handler that was replaced.
C4_Replaced ==
    /\ \A p \in Parsers, h \in Handlers :
         refs[p][h] = Cardinality({CB \in ConnpHooks : callback[p][CB] = h})
    /\ lastCall.handler # NULL /\ lastCall.hook \in ConnpHooks =>
         lastCall.handler = callback[lastCall.p][lastCall.hook]
    /\ (/\ lastCall.handler # NULL
        /\ lastReg.old # NULL
        /\ lastCall.p = lastReg.p
        /\ lastCall.hook = lastReg.hook) => lastCall.handler = lastReg.new

\* h1 was replaced by h2 in a slot, an event of that hook invoked h2, and
\* the parser holds nothing on h1.
C4_Witness ==
    /\ lastReg.old = "h1" /\ lastReg.new = "h2"
    /\ lastCall.p = lastReg.p /\ lastCall.hook = lastReg.hook
    /\ lastCall.handler = "h2"
    /\ refs[lastReg.p]["h1"] = 0

\* C5: one event of a hook point makes exactly one invocation of the
\* handler in the slot, however often register_X was called: never a second
\* invocation for the event, and one made when the event is over.
C5_OneInvocationPerEvent ==
    feed.phase \in {"hooks", "handler"} /\ feed.hook \in ConnpHooks =>
        /\ Invocations <= 1
        /\ feed.idx = feed.nent => Invocations = 1

C7_UserContextPassed ==
    lastCall.handler # NULL =>
        IF lastCall.obj # NULL
        THEN /\ UserArgs(lastCall.args) = {Len(lastCall.args)}
             /\ lastCall.args[Len(lastCall.args)] = lastCall.obj
        ELSE UserArgs(lastCall.args) = {}

\* C7, amended: so it is for the hooks of the parser's own slots
\* (transaction, data and log hooks); the request_file_data handler gets
\* the file dictionary alone, attached user context or not.
C7_UserContextPassedBySlots ==
    lastCall.handler # NULL =>
        IF lastCall.hook = FileHook
        THEN lastCall.args = <<"dict">>
        ELSE IF lastCall.obj # NULL
        THEN /\ UserArgs(lastCall.args) = {Len(lastCall.args)}
             /\ lastCall.args[Len(lastCall.args)] = lastCall.obj
        ELSE UserArgs(lastCall.args) = {}

\* A data handler was invoked with the attached user context.
C7_Witness ==
    /\ lastCall.handler # NULL
    /\ lastCall.hook \in DataHooks
    /\ lastCall.obj = "u1"
    /\ lastCall.args[Len(lastCall.args)] = "u1"

C9_OneClaim ==
    \A p \in Parsers, o \in UserObjs :
        /\ refs[p][o] = IF obj_store[p] = o THEN 1 ELSE 0
        /\ connp_state[p] = "freed" => refs[p][o] = 0

\* Every call of the run was a set_obj or del_obj on the one parser there
\* is, and u2 is attached at the end.
C9_Witness ==
    \E p \in Parsers :
        /\ count = MaxCalls
        /\ \A q \in Parsers \ {p} : connp_state[q] = "none"
        /\ callback[p] = [h \in ConnpHooks |-> NULL]
        /\ request_file_data_callback = NULL
        /\ obj_store[p] = "u2"
        /\ refs[p]["u2"] = 1 /\ refs[p]["u1"] = 0

\* C10: no live parser points to a destroyed configuration, and a
\* configuration whose last parser was destroyed (and that the host does
\* not hold) is not left allocated.
C10_ConfigLifetime ==
    /\ \A p \in Parsers : connp_state[p] = "live" => ~CfgDangling(p)
    /\ \A c \in CfgIds :
         LET Orphaned ==
                 /\ \E p \in Parsers :
                      connp_state[p] = "freed" /\ connp_cfg[p] = c
                 /\ \A p \in Parsers :
                      connp_state[p] = "live" => connp_cfg[p] # c
                 /\ c = HostCfg => config_obj # "live"
         IN Orphaned => cfg_state[c] # "live"

\* C11: parsers built on one config share no state through it: a hook
\* point fires on a live parser only if that parser registered a handler
\* for it, so no trampoline ever runs on a parser whose slot is empty (and
\* nothing dies on an empty slot).
C11_NoSharedState ==
    /\ ~crashed
    /\ \A p \in Parsers, CB \in ConnpHooks :
         connp_state[p] = "live" /\ cfg_hooks[connp_cfg[p]][CB] > 0 =>
             callback[p][CB] # NULL
    /\ feed.phase \in {"hooks", "handler"} /\ feed.hook \in ConnpHooks =>
         callback[feed.p][feed.hook] # NULL

\* C12: the request_file_data slot is one for the whole module: a file data
\* event on any parser invokes the handler registered last, by whichever
\* parser; the module holds one reference on it and none on a replaced one;
\* and once a handler was registered the slot is never empty again, the
\* registering parser destroyed or not.
C12_GlobalFileSlot ==
    /\ lastCall.handler # NULL /\ lastCall.hook = FileHook =>
         /\ lastCall.handler = request_file_data_callback
         /\ lastReg.hook = FileHook => lastCall.handler = lastReg.new
    /\ \A h \in Handlers :
         refs["module"][h] = IF request_file_data_callback = h THEN 1 ELSE 0
    /\ (\E c \in CfgIds : cfg_hooks[c][FileHook] > 0) =>
         request_file_data_callback # NULL

\* A registered h1, B replaced it by h2 and was destroyed, and a file data
\* event raised while A was fed invoked h2.
C12_Witness ==
    /\ lastReg = [p |-> "B", hook |-> FileHook, old |-> "h1", new |-> "h2"]
    /\ connp_state["B"] = "freed"
    /\ lastCall.p = "A" /\ lastCall.hook = FileHook
    /\ lastCall.handler = "h2"

\* C13: when the header collection of the transaction holds two entries with
\* the same name, full enumeration returns every entry of the collection as
\* an entry of its own, and lookup-by-name returns the value of the first
\* entry of the name without raising.
C13_DuplicatesEnumerated ==
    \A TYPE \in Types :
      LET tbl == LastTx.headers[TYPE]
      IN (\E i, j \in 1..Len(tbl) : i < j /\ tbl[i].name = tbl[j].name) =>
           /\ got.fn = "get_all_" \o TYPE \o "_headers" =>
                /\ got.kind = "value"
                /\ \A i \in 1..Len(tbl) :
                     <<tbl[i].name, tbl[i].value>> \in got.val
                /\ Cardinality(got.val) = Len(tbl)
           /\ got.fn = "get_" \o TYPE \o "_header" =>
                /\ got.kind \in {"value", "None"}
                /\ got.kind = "value" <=> htp_table_get_c(tbl, got.arg) # 0
                /\ got.kind = "value" =>
                     got.val = tbl[htp_table_get_c(tbl, got.arg)].value

\* C14: the keys of the result of get_uri are exactly the components
\* (scheme, username, password, hostname, port, path, query, fragment) that
\* are present in the parsed URI of the request: an absent component has no
\* key, a present but empty one has a key with an empty value.
C14_UriKeysArePresentComponents ==
    got.fn = "get_uri" /\ InTx.parsed_uri # NullPtr =>
        LET uri == Deref(InTx.parsed_uri)
            present == {Components[i] : i \in {j \in 1..Len(Components) :
                                                 uri[Components[j]] # NullPtr}}
        IN /\ got.kind = "value"
           /\ {e[1] : e \in got.val} = present
           /\ \A c \in present :
                uri[c] = PtrTo(<<>>) => <<c, <<>>>> \in got.val

\* C15: the header, method, status, protocol and length accessors all read
\* the last transaction of the list: whatever one of them returns is a field
\* (or a header) of the last transaction, also when another transaction is
\* the one being parsed in its direction.  (What get_response_status_string
\* reads through a NULL response_status is no field of any transaction and
\* is left out.)
C15_AllReadLastTx ==
    /\ LET LastTxAccessors ==
               {"get_method", "get_response_status",
                "get_response_status_string"}
               \cup {"get_" \o TYPE \o "_" \o field :
                        TYPE \in Types,
                        field \in {"protocol", "protocol_number",
                                   "message_len", "entity_len"}}
       IN got.fn \in LastTxAccessors /\ got.kind = "value"
             /\ got.val # NullPtr /\ got.val # PtrTo(<<"garbage", 0>>) =>
             Deref(got.val)[2] = LastTx.id
    /\ \A TYPE \in Types :
         got.fn = "get_" \o TYPE \o "_header" /\ got.kind = "value" =>
             \E i \in 1..Len(LastTx.headers[TYPE]) :
                 /\ LastTx.headers[TYPE][i].name = got.arg
                 /\ LastTx.headers[TYPE][i].value = got.val

\* C17: the transaction_complete handler is invoked only when both the
\* request and the response of the transaction are complete, and at most
\* once for a transaction.
C17_CompleteOnce ==
    feed.hook = "transaction_complete" =>
        /\ conn.final_tx # 0
        /\ conn.transactions[conn.final_tx].request_progress = "complete"
        /\ conn.transactions[conn.final_tx].response_progress = "complete"
        /\ Invocations <= 1

C19_TransientsReleased ==
    feed.phase = "handler" =>
        \A path \in Outcomes \cup {BuildFails} :
            Unreleased(feed.hook, path, pyerr) = {}

\* C20: assigning an invalid value to an option of the config (log_level,
\* tx_auto_destroy), one that is not an integer or an integer outside the
\* range of the option, fails at the assignment and leaves the option as it
\* was.
C20_InvalidOptionRejected ==
    \A ATTR \in Attrs :
        got.fn = "set_" \o ATTR /\ ~Valid(ATTR, got.arg) =>
            /\ got.kind = "htpy.error"
            /\ cfg_opts[ATTR] = got.val

\* C20, as the code has it: assigning something that is not a Python int (a
\* string, None, a long, or deleting the attribute) fails at the assignment
\* and leaves the option as it was; any Python int is accepted, whatever its
\* value, and its low 32 bits are stored in the option.
C20_NonIntRejected ==
    \A ATTR \in Attrs :
        got.fn = "set_" \o ATTR =>
            IF PyInt_Check(got.arg)
            THEN got.kind = "ok" /\ cfg_opts[ATTR] = IntOfLong(got.arg)
            ELSE got.kind = "htpy.error" /\ cfg_opts[ATTR] = got.val

\* log_level holds a value that is no log level, and an assignment of a
\* string to it has just failed.
C20_Witness ==
    /\ got.fn = "set_log_level"
    /\ got.arg.type = "str"
    /\ got.kind = "htpy.error"
    /\ cfg_opts.log_level = HTP_PROTOCOL_1_1

\* C18: a feed that a handler issues on the parser whose feed invoked it
\* is rejected: the engine does not read its chunk and no hook is run for
\* it.
C18_ReentrantFeedRejected ==
    outer # NoFeed /\ outer.p = feed.p =>
        /\ feed.phase = "done"
        /\ feed.pos = IF feed.dir = outer.dir THEN outer.pos
                      ELSE consumed[feed.p][feed.dir]

\* C21: on a parser whose list of transactions is empty, or whose last
\* transaction was destroyed, every accessor of the last transaction
\* (get_method, get_request_header, get_response_header,
\* get_all_request_headers, get_all_response_headers, get_response_status,
\* get_response_status_string) fails with htpy.error and reads no
\* transaction.
C21_MissingTransaction ==
    LET LastTxFns ==
            {"get_method", "get_response_status",
             "get_response_status_string"}
            \cup {"get_" \o TYPE \o "_header" : TYPE \in Types}
            \cup {"get_all_" \o TYPE \o "_headers" : TYPE \in Types}
    IN got.fn \in LastTxFns /\ LastTx = NoTx => got.kind = "htpy.error"

\* C22: whatever the handler did (returned one of the four codes, returned
\* another integer, returned something that is not an integer, or raised),
\* the value the trampoline returns to the engine is one of HTP_OK,
\* HTP_DECLINED, HTP_ERROR and HTP_STOP.
C22_ControlSignalsOnly ==
    lastCall.outcome.kind # "none" => lastCall.ret \in ReturnCodes

=========================================================================
